---- MODULE Spec2Model ----
(***************************************************************************)
(* The two Tauri commands of src-tauri/src/lib.rs, fetch_image and         *)
(* fetch_image_buffer, as asynchronous tasks.  A task runs from its        *)
(* invocation to its first await (request send), is resumed with the       *)
(* outcome of the send, runs to its second await (body read), and is       *)
(* resumed with the outcome of the read.  The HTTP library (reqwest) and   *)
(* the network are the environment: they choose whether the client builds, *)
(* whether the request gets a response and with which status, and whether  *)
(* the body arrives and with which bytes.                                  *)
(*                                                                         *)
(* Option<T> is a sequence of length 0 (None) or 1 (Some).  A String made  *)
(* by format! or to_string is the sequence of its fragments; the data URI  *)
(* is a sequence of one-character strings; a byte buffer is a sequence of  *)
(* numbers in 0..255.                                                      *)
(***************************************************************************)
EXTENDS Integers, Sequences, FiniteSets, TLC

\* ------------------------------------------------------------------ bounds
NumCalls == 2        \* tasks that may be in flight together
MaxBody == 3         \* longest response body when one task runs
MaxConcBody == 1     \* longest response body when several tasks run

Calls == 1..NumCalls

\* ------------------------------------------------------------- input sets
Ops == {"fetch_image", "fetch_image_buffer"}

ReachableUrl == "https://img.example/a.jpg"
UnreachableUrl == "https://unreachable.invalid/a.jpg"
Urls == {ReachableUrl, UnreachableUrl}

None == <<>>
Some(v) == <<v>>
IsSome(o) == Len(o) = 1
Unwrap(o) == o[1]

GoodProxy == "http://127.0.0.1:8080"
BadProxy == "not a url"
ProxyUrls == {None, Some(""), Some(GoodProxy), Some(BadProxy)}

ByteVals == {0, 216, 255}                 \* when one task runs
ConcByteVals == {255}                     \* when several tasks run
Bodies(vals, n) == UNION {[1..k -> vals] : k \in 0..n}

Statuses == {199, 200, 299, 300, 404}     \* when one task runs
ConcStatuses == {200, 404}                \* when several tasks run

\* ------------------------------------------------------ library behaviour
\* reqwest::Proxy::all(&proxy_str): Ok(proxy) for an address that parses as
\* a URL, Err otherwise (the empty string and "not a url" do not parse).
ProxyAll(s) ==
    IF s = GoodProxy
    THEN [ok |-> TRUE, proxy |-> Some(s), err |-> <<>>]
    ELSE [ok |-> FALSE, proxy |-> None, err |-> <<"builder error">>]

\* StatusCode::is_success
\* (variant: redirects and everything below 400 taken as success)
IsSuccess_upto400(status) == 200 <= status /\ status < 400
IsSuccess(status) == 200 <= status /\ status < 300

\* Display of StatusCode: the code, then its canonical reason
StatusDisplay(status) ==
    CASE status = 200 -> <<"200", "OK">>
      [] status = 300 -> <<"300", "Multiple Choices">>
      [] status = 404 -> <<"404", "Not Found">>
      [] status = 199 -> <<"199", "<unknown status code>">>
      [] status = 299 -> <<"299", "<unknown status code>">>

\* format!("<prefix>{}", e) and e.to_string()
Format(prefix, e) == <<prefix>> \o e
ErrToString(e) == e

\* ---------------------------------------------------------------- base64
Alphabet ==
    << "A","B","C","D","E","F","G","H","I","J","K","L","M",
       "N","O","P","Q","R","S","T","U","V","W","X","Y","Z",
       "a","b","c","d","e","f","g","h","i","j","k","l","m",
       "n","o","p","q","r","s","t","u","v","w","x","y","z",
       "0","1","2","3","4","5","6","7","8","9","+","/" >>
Pad == "="
Sym(i) == Alphabet[i + 1]

\* base64::engine::general_purpose::STANDARD.encode: standard alphabet,
\* three bytes to four symbols, the last group padded with "="
RECURSIVE StandardEncode(_)
StandardEncode(bytes) ==
    IF Len(bytes) = 0 THEN <<>>
    ELSE IF Len(bytes) = 1 THEN
        << Sym(bytes[1] \div 4), Sym((bytes[1] % 4) * 16), Pad, Pad >>
    ELSE IF Len(bytes) = 2 THEN
        << Sym(bytes[1] \div 4),
           Sym((bytes[1] % 4) * 16 + bytes[2] \div 16),
           Sym((bytes[2] % 16) * 4), Pad >>
    ELSE
        << Sym(bytes[1] \div 4),
           Sym((bytes[1] % 4) * 16 + bytes[2] \div 16),
           Sym((bytes[2] % 16) * 4 + bytes[3] \div 64),
           Sym(bytes[3] % 64) >>
        \o StandardEncode(SubSeq(bytes, 4, Len(bytes)))

DataUriPrefix ==
    << "d","a","t","a",":","i","m","a","g","e","/","j","p","e","g",";",
       "b","a","s","e","6","4","," >>

\* format!("data:image/jpeg;base64,{}", base64_data)
DataUri(base64_data) == DataUriPrefix \o base64_data

\* ------------------------------------------------------------ the builder
\* reqwest::Client::builder() with the fixed settings of lines 7-12 / 73-78
UserAgent == "Mozilla/5.0 (Macintosh; Intel Mac OS X 10_15_7) AppleWebKit/537.36"
PoolMaxIdlePerHost == 5
PoolIdleTimeoutSecs == 30
TimeoutSecs == 30

\* (variant: the builder without .timeout(..))
ClientBuilder_noTimeout ==
    [ user_agent |-> UserAgent,
      danger_accept_invalid_certs |-> TRUE,
      pool_max_idle_per_host |-> PoolMaxIdlePerHost,
      pool_idle_timeout |-> Some(PoolIdleTimeoutSecs),
      timeout |-> None,
      proxy |-> None ]
ClientBuilder ==
    [ user_agent |-> UserAgent,
      danger_accept_invalid_certs |-> TRUE,
      pool_max_idle_per_host |-> PoolMaxIdlePerHost,
      pool_idle_timeout |-> Some(PoolIdleTimeoutSecs),
      timeout |-> Some(TimeoutSecs),
      proxy |-> None ]

\* ------------------------------------------------------------------ state
VARIABLES calls      \* calls[c]: the locals and the position of task c
vars == <<calls>>

Pending == [tag |-> "Pending", text |-> <<>>, bytes |-> <<>>, err |-> <<>>]
OkText(t) == [tag |-> "Ok", text |-> t, bytes |-> <<>>, err |-> <<>>]
OkBytes(b) == [tag |-> "Ok", text |-> <<>>, bytes |-> b, err |-> <<>>]
Err(msg) == [tag |-> "Err", text |-> <<>>, bytes |-> <<>>, err |-> msg]

\* a task that has not been invoked
IdleCall ==
    [ pc |-> "idle", op |-> "", url |-> "", proxy_url |-> None,
      client_builder |-> ClientBuilder, client |-> None, request |-> None,
      events |-> <<>>, failed_at |-> "",
      build_out |-> None, send_out |-> None, body_out |-> None,
      result |-> Pending ]

\* entry of either command: the arguments and the fresh builder
NewCall(op, url, proxy_url) ==
    [IdleCall EXCEPT !.pc = "running", !.op = op, !.url = url,
                     !.proxy_url = proxy_url]

\* `?` on an Err, or `return Err(..)`: the task ends with the message
Fail(call, stage, msg) ==
    [call EXCEPT !.pc = "done", !.failed_at = stage, !.result = Err(msg)]

\* ---------------------------------------------------------- error strings
ProxyErrMsg(op, e) == Format("Failed to create proxy: ", e)
BuildErrMsg(op, e) ==
    IF op = "fetch_image" THEN Format("Failed to build client: ", e)
    ELSE ErrToString(e)
SendErrMsg(op, e) ==
    IF op = "fetch_image" THEN Format("Request failed: ", e)
    ELSE ErrToString(e)
StatusErrMsg(op, status) ==
    Format("Failed to fetch image: ", StatusDisplay(status))
ReadErrMsg(op, e) ==
    IF op = "fetch_image" THEN Format("Failed to read bytes: ", e)
    ELSE ErrToString(e)

\* ------------------------------------------------------------- the stages
\* if let Some(proxy_str) = proxy_url { if !proxy_str.is_empty() { .. } }
\* (variant: without the is_empty test)
ConfigureProxy_noEmptyCheck(call) ==
    IF IsSome(call.proxy_url)
    THEN LET r == ProxyAll(Unwrap(call.proxy_url))
             c1 == [call EXCEPT !.events = Append(@, "proxy")]
         IN IF r.ok
            THEN [c1 EXCEPT !.client_builder.proxy = r.proxy]
            ELSE Fail(c1, "proxy", ProxyErrMsg(call.op, r.err))
    ELSE call
\* (variant: the proxy error is dropped instead of returned)
ConfigureProxy_ignoreErr(call) ==
    IF IsSome(call.proxy_url) /\ Unwrap(call.proxy_url) # ""
    THEN LET r == ProxyAll(Unwrap(call.proxy_url))
             c1 == [call EXCEPT !.events = Append(@, "proxy")]
         IN IF r.ok
            THEN [c1 EXCEPT !.client_builder.proxy = r.proxy]
            ELSE c1
    ELSE call
ConfigureProxy(call) ==
    IF IsSome(call.proxy_url) /\ Unwrap(call.proxy_url) # ""
    THEN LET r == ProxyAll(Unwrap(call.proxy_url))
             c1 == [call EXCEPT !.events = Append(@, "proxy")]
         IN IF r.ok
            THEN [c1 EXCEPT !.client_builder.proxy = r.proxy]
            ELSE Fail(c1, "proxy", ProxyErrMsg(call.op, r.err))
    ELSE call

\* client_builder.build().map_err(..)?
\* (variant: a client built by any task is kept and reused by the next)
BuildClient_cached(call, out) ==
    IF call.pc = "done" THEN call
    ELSE LET c1 == [call EXCEPT !.events = Append(@, "build"),
                                !.build_out = Some(out)]
             built == {d \in Calls : IsSome(calls[d].client)}
         IN IF out.ok
            THEN [c1 EXCEPT !.client =
                     IF built = {} THEN Some(call.client_builder)
                     ELSE calls[CHOOSE d \in built : TRUE].client]
            ELSE Fail(c1, "build", BuildErrMsg(call.op, out.err))
BuildClient(call, out) ==
    IF call.pc = "done" THEN call
    ELSE LET c1 == [call EXCEPT !.events = Append(@, "build"),
                                !.build_out = Some(out)]
         IN IF out.ok
            THEN [c1 EXCEPT !.client = Some(call.client_builder)]
            ELSE Fail(c1, "build", BuildErrMsg(call.op, out.err))

\* client.get(&url).send(), up to the await
SendRequest(call) ==
    IF call.pc = "done" THEN call
    ELSE [call EXCEPT !.events = Append(@, "send"),
                      !.request = Some([method |-> "GET", url |-> call.url,
                                        via |-> Unwrap(call.client).proxy]),
                      !.pc = "awaitSend"]

\* resumed from send().await: map_err(..)?, the status check, and
\* response.bytes() up to its await
\* (variant: a failed send is sent again)
AfterSend_retry(call, out) ==
    LET c1 == [call EXCEPT !.send_out = Some(out)]
    IN IF ~out.ok
       THEN [c1 EXCEPT !.events = Append(@, "send")]
       ELSE LET c2 == [c1 EXCEPT !.events = Append(@, "status")]
            IN IF ~IsSuccess(out.status)
               THEN Fail(c2, "status", StatusErrMsg(call.op, out.status))
               ELSE [c2 EXCEPT !.events = Append(@, "read"),
                               !.pc = "awaitBody"]
\* (variant: fetch_image_buffer without the status check)
AfterSend_bufferNoStatus(call, out) ==
    LET c1 == [call EXCEPT !.send_out = Some(out)]
    IN IF ~out.ok
       THEN Fail(c1, "send", SendErrMsg(call.op, out.err))
       ELSE LET c2 == [c1 EXCEPT !.events = Append(@, "status")]
            IN IF ~IsSuccess(out.status) /\ call.op = "fetch_image"
               THEN Fail(c2, "status", StatusErrMsg(call.op, out.status))
               ELSE [c2 EXCEPT !.events = Append(@, "read"),
                               !.pc = "awaitBody"]
AfterSend(call, out) ==
    LET c1 == [call EXCEPT !.send_out = Some(out)]
    IN IF ~out.ok
       THEN Fail(c1, "send", SendErrMsg(call.op, out.err))
       ELSE LET c2 == [c1 EXCEPT !.events = Append(@, "status")]
            IN IF ~IsSuccess(out.status)
               THEN Fail(c2, "status", StatusErrMsg(call.op, out.status))
               ELSE [c2 EXCEPT !.events = Append(@, "read"),
                               !.pc = "awaitBody"]

\* STANDARD.encode(&bytes)
\* (variant: STANDARD_NO_PAD)
EncodeBody_noPad(bytes) == SelectSeq(StandardEncode(bytes), LAMBDA ch : ch # Pad)
EncodeBody(bytes) == StandardEncode(bytes)

\* bytes.to_vec()
\* (variant: the last byte is lost)
ToVec_truncated(bytes) == IF Len(bytes) = 0 THEN bytes ELSE SubSeq(bytes, 1, Len(bytes) - 1)
ToVec(bytes) == bytes

\* resumed from bytes().await: map_err(..)?, then the Ok value
AfterBody(call, out) ==
    LET c1 == [call EXCEPT !.body_out = Some(out)]
    IN IF ~out.ok
       THEN Fail(c1, "read", ReadErrMsg(call.op, out.err))
       ELSE [c1 EXCEPT !.pc = "done",
                       !.result = IF call.op = "fetch_image"
                                  THEN OkText(DataUri(EncodeBody(out.bytes)))
                                  ELSE OkBytes(ToVec(out.bytes))]

\* ------------------------------------------------------- the environment
\* Client::build succeeds, or fails (the TLS backend cannot be initialised)
BuildOutcomes ==
    { [ok |-> TRUE, err |-> <<>>],
      [ok |-> FALSE, err |-> <<"builder error">>] }

\* What the network may do: the statuses and bodies a server may answer
\* with, and whether connections may be refused or dropped.
World == [statuses |-> Statuses, bodies |-> Bodies(ByteVals, MaxBody),
          drops |-> TRUE]
ConcWorld == [statuses |-> ConcStatuses,
              bodies |-> Bodies(ConcByteVals, MaxConcBody), drops |-> FALSE]

Failure(what, why) ==
    [ok |-> FALSE, status |-> 0, bytes |-> <<>>, err |-> <<what, why>>]

\* The request timeout ends an await only when the client has one.
TimedOut(call, what) ==
    IF IsSome(Unwrap(call.client).timeout)
    THEN {Failure(what, "operation timed out")}
    ELSE {}

\* What send().await can resolve to: a response with some status, a refused
\* connection, or the timeout.  The unreachable host answers nothing: only
\* the timeout ends the wait.
SendOutcomes(call, w) ==
    IF call.url = UnreachableUrl
    THEN TimedOut(call, "error sending request")
    ELSE TimedOut(call, "error sending request")
         \cup (IF w.drops
               THEN {Failure("error sending request", "connection refused")}
               ELSE {})
         \cup {[ok |-> TRUE, status |-> s, bytes |-> <<>>, err |-> <<>>] :
                  s \in w.statuses}

\* What bytes().await can resolve to: the body, a dropped connection, or
\* the timeout.
BodyOutcomes(call, w) ==
    TimedOut(call, "error decoding response body")
    \cup (IF w.drops
          THEN {Failure("error decoding response body", "connection closed")}
          ELSE {})
    \cup {[ok |-> TRUE, status |-> 0, bytes |-> b, err |-> <<>>] :
             b \in w.bodies}

\* ---------------------------------------------------------------- actions
Init == calls = [c \in Calls |-> IdleCall]

\* The command is invoked and runs to its first await (lines 5-41, 71-97).
\* Tasks are numbered in the order of their invocation.
Begin(c) ==
    /\ calls[c].pc = "idle"
    /\ \A d \in Calls : d < c => calls[d].pc # "idle"
    /\ \E op \in Ops, url \in Urls, proxy_url \in ProxyUrls,
          out \in BuildOutcomes :
          calls' = [calls EXCEPT ![c] =
                     SendRequest(BuildClient(
                         ConfigureProxy(NewCall(op, url, proxy_url)), out))]

\* send().await resolves (lines 41-56, 97-109)
SendComplete(c, w) ==
    /\ calls[c].pc = "awaitSend"
    /\ \E out \in SendOutcomes(calls[c], w) :
          calls' = [calls EXCEPT ![c] = AfterSend(calls[c], out)]

\* bytes().await resolves (lines 56-66, 109-115)
BodyComplete(c, w) ==
    /\ calls[c].pc = "awaitBody"
    /\ \E out \in BodyOutcomes(calls[c], w) :
          calls' = [calls EXCEPT ![c] = AfterBody(calls[c], out)]

\* several tasks in flight, resumed in any order
Next ==
    \E c \in Calls :
        \/ Begin(c)
        \/ SendComplete(c, ConcWorld)
        \/ BodyComplete(c, ConcWorld)

Spec == Init /\ [][Next]_vars

\* one task on its own
NextSingle ==
    \/ Begin(1)
    \/ SendComplete(1, World)
    \/ BodyComplete(1, World)

SpecSingle == Init /\ [][NextSingle]_vars

\* an await that can resolve does resolve
SpecSingleFair ==
    /\ Init /\ [][NextSingle]_vars
    /\ WF_vars(SendComplete(1, World))
    /\ WF_vars(BodyComplete(1, World))

\* ================================================================ claims
Range(seq) == {seq[i] : i \in 1..Len(seq)}
Count(seq, x) == Cardinality({i \in 1..Len(seq) : seq[i] = x})
StartsWith(msg, prefix) == Len(msg) >= 1 /\ msg[1] = prefix
Tail1(msg) == SubSeq(msg, 2, Len(msg))
In2xx(status) == status \in 200..299

\* the task got a 2xx response and then its whole body
GotBody(call) ==
    /\ call.pc = "done"
    /\ IsSome(call.send_out) /\ Unwrap(call.send_out).ok
    /\ In2xx(Unwrap(call.send_out).status)
    /\ IsSome(call.body_out) /\ Unwrap(call.body_out).ok
BodyOf(call) == Unwrap(call.body_out).bytes

\* A decoder for padded standard base64 (RFC 4648, section 4), written
\* apart from the encoder: four symbols to three bytes, "=" ends the text.
SymIndex(ch) == CHOOSE i \in 0..63 : Alphabet[i + 1] = ch
WellFormedBase64(s) ==
    /\ Len(s) % 4 = 0
    /\ \A i \in 1..Len(s) :
          \/ s[i] \in Range(Alphabet)
          \/ /\ s[i] = Pad
             /\ i >= Len(s) - 1
             /\ i = Len(s) - 1 => s[Len(s)] = Pad
    \* the bits of the last symbol that carry no data are zero
    /\ Len(s) > 0 /\ s[Len(s)] = Pad /\ s[Len(s) - 1] # Pad
          => SymIndex(s[Len(s) - 1]) % 4 = 0
    /\ Len(s) > 0 /\ s[Len(s) - 1] = Pad
          => SymIndex(s[Len(s) - 2]) % 16 = 0
RECURSIVE Base64Decode(_)
Base64Decode(s) ==
    IF Len(s) = 0 THEN <<>>
    ELSE LET a == SymIndex(s[1])
             b == SymIndex(s[2])
         IN IF s[3] = Pad THEN << a * 4 + b \div 16 >>
            ELSE LET c == SymIndex(s[3])
                 IN IF s[4] = Pad
                    THEN << a * 4 + b \div 16, (b % 16) * 16 + c \div 4 >>
                    ELSE << a * 4 + b \div 16, (b % 16) * 16 + c \div 4,
                            (c % 4) * 64 + SymIndex(s[4]) >>
                         \o Base64Decode(SubSeq(s, 5, Len(s)))

JpegMagic == << 255, 216, 255 >>

\* C1: whenever fetch_image_buffer has sent its request, got a 2xx status
\* and read the body B, it returns Ok with exactly the bytes of B: the same
\* length and the same byte at every position.
C1_BufferReturnsBody ==
    \A c \in Calls :
        calls[c].op = "fetch_image_buffer" /\ GotBody(calls[c])
        => /\ calls[c].result.tag = "Ok"
           /\ Len(calls[c].result.bytes) = Len(BodyOf(calls[c]))
           /\ \A i \in 1..Len(BodyOf(calls[c])) :
                 calls[c].result.bytes[i] = BodyOf(calls[c])[i]
           /\ calls[c].result.err = <<>>

C1_Witness ==
    \E c \in Calls :
        /\ calls[c].op = "fetch_image_buffer" /\ GotBody(calls[c])
        /\ BodyOf(calls[c]) = JpegMagic
        /\ calls[c].result.tag = "Ok"

\* C2: whenever fetch_image got a 2xx status and read the body B, it
\* returns Ok with "data:image/jpeg;base64," followed by well-formed padded
\* standard base64 text that decodes to exactly B; the prefix does not
\* depend on B, and the JPEG magic bytes FF D8 FF give "/9j/".
C2_DataUriOfBody ==
    \A c \in Calls :
        calls[c].op = "fetch_image" /\ GotBody(calls[c])
        => LET text == calls[c].result.text
               rest == SubSeq(text, 24, Len(text))
           IN /\ calls[c].result.tag = "Ok"
              /\ Len(text) >= 23
              /\ SubSeq(text, 1, 23) =
                   << "d","a","t","a",":","i","m","a","g","e","/","j","p",
                      "e","g",";","b","a","s","e","6","4","," >>
              /\ WellFormedBase64(rest)
              /\ Len(rest) = 4 * ((Len(BodyOf(calls[c])) + 2) \div 3)
              /\ Base64Decode(rest) = BodyOf(calls[c])
              /\ BodyOf(calls[c]) = JpegMagic => rest = << "/", "9", "j", "/" >>

C2_Witness ==
    \E c \in Calls :
        /\ calls[c].op = "fetch_image" /\ GotBody(calls[c])
        /\ Len(BodyOf(calls[c])) = 2
        /\ calls[c].result.tag = "Ok"
        /\ calls[c].result.text[Len(calls[c].result.text)] = Pad

\* C3: whenever the response status is outside 200..299, either command
\* ends with Err, the message is "Failed to fetch image: " followed by the
\* status (so it contains the status code), the body is never read and no
\* success value is produced.
C3_NonSuccessStatusFails ==
    \A c \in Calls :
        (IsSome(calls[c].send_out) /\ Unwrap(calls[c].send_out).ok
           /\ ~In2xx(Unwrap(calls[c].send_out).status))
        => /\ calls[c].pc = "done"
           /\ calls[c].result.tag = "Err"
           /\ StartsWith(calls[c].result.err, "Failed to fetch image: ")
           /\ Tail1(calls[c].result.err)
                = StatusDisplay(Unwrap(calls[c].send_out).status)
           /\ ToString(Unwrap(calls[c].send_out).status)
                \in Range(calls[c].result.err)
           /\ "read" \notin Range(calls[c].events)
           /\ calls[c].body_out = None
           /\ calls[c].result.text = <<>> /\ calls[c].result.bytes = <<>>

C3_Witness ==
    /\ \E c \in Calls :
          /\ calls[c].pc = "done"
          /\ IsSome(calls[c].send_out) /\ Unwrap(calls[c].send_out).ok
          /\ Unwrap(calls[c].send_out).status = 404
          /\ "404" \in Range(calls[c].result.err)

NonEmptyProxy(call) == IsSome(call.proxy_url) /\ Unwrap(call.proxy_url) # ""

\* C4: a call whose proxy_url is non-empty and for which proxy construction
\* fails ends with Err "Failed to create proxy: ..."; in that call no client
\* is built and no GET is sent, in this state or any later one.
C4_BadProxyFailsBeforeNetwork ==
    \A c \in Calls :
        (calls[c].pc # "idle" /\ calls[c].proxy_url = Some(BadProxy))
        => /\ calls[c].pc = "done"
           /\ calls[c].result.tag = "Err"
           /\ StartsWith(calls[c].result.err, "Failed to create proxy: ")
           /\ calls[c].events = << "proxy" >>
           /\ calls[c].client = None
           /\ calls[c].request = None
           /\ calls[c].build_out = None /\ calls[c].send_out = None
           /\ calls[c].body_out = None

C4_Witness ==
    \E c, d \in Calls :
        /\ calls[c].proxy_url = Some(BadProxy) /\ calls[c].pc = "done"
        /\ calls[c].result.tag = "Err"
        /\ calls[d].proxy_url = Some(GoodProxy) /\ IsSome(calls[d].request)

\* C5: two calls of the same command with the same url, one with proxy_url
\* None and one with Some(""), have the same builder with no proxy; given
\* the same build outcome they have the same client and send the same
\* request, and given the same responses they end with the same result.
\* Proxy construction is attempted exactly for a non-empty proxy_url, and
\* a built client has a proxy exactly then.
C5_NoneEqualsEmptyProxy ==
    /\ \A c, d \in Calls :
          (/\ calls[c].pc # "idle" /\ calls[d].pc # "idle"
           /\ calls[c].op = calls[d].op /\ calls[c].url = calls[d].url
           /\ calls[c].proxy_url = None /\ calls[d].proxy_url = Some(""))
          => /\ calls[c].client_builder = calls[d].client_builder
             /\ calls[c].client_builder.proxy = None
             /\ calls[c].build_out = calls[d].build_out
                  => /\ calls[c].client = calls[d].client
                     /\ calls[c].request = calls[d].request
             /\ (/\ calls[c].build_out = calls[d].build_out
                 /\ calls[c].send_out = calls[d].send_out
                 /\ calls[c].body_out = calls[d].body_out)
                  => /\ calls[c].pc = calls[d].pc
                     /\ calls[c].events = calls[d].events
                     /\ calls[c].result = calls[d].result
    /\ \A c \in Calls :
          calls[c].pc # "idle"
          => /\ ("proxy" \in Range(calls[c].events)) <=> NonEmptyProxy(calls[c])
             /\ IsSome(calls[c].client)
                  => /\ IsSome(Unwrap(calls[c].client).proxy)
                          <=> NonEmptyProxy(calls[c])
                     /\ IsSome(calls[c].request)
                     /\ Unwrap(calls[c].request).via
                          = Unwrap(calls[c].client).proxy

C5_Witness ==
    \E c, d \in Calls :
        /\ calls[c].op = calls[d].op /\ calls[c].url = calls[d].url
        /\ calls[c].proxy_url = None /\ calls[d].proxy_url = Some("")
        /\ calls[c].pc = "done" /\ calls[d].pc = "done"
        /\ calls[c].result.tag = "Ok" /\ calls[d].result = calls[c].result

\* C6: in both commands the returned error string names the failing stage:
\* "Failed to build client: ..." for the client build; "Request failed: ..."
\* or a text containing "Failed to send request" for the request; "Failed
\* to read bytes: ..." or a text containing "Failed to get bytes" for the
\* body read.
C6_ErrorNamesStage ==
    \A c \in Calls :
        calls[c].pc = "done" /\ calls[c].result.tag = "Err"
        => /\ calls[c].failed_at = "build"
                => StartsWith(calls[c].result.err, "Failed to build client: ")
           /\ calls[c].failed_at = "send"
                => \/ StartsWith(calls[c].result.err, "Request failed: ")
                   \/ "Failed to send request" \in Range(calls[c].result.err)
           /\ calls[c].failed_at = "read"
                => \/ StartsWith(calls[c].result.err, "Failed to read bytes: ")
                   \/ "Failed to get bytes" \in Range(calls[c].result.err)

\* the order of the stages of one call
StageOrder(call) ==
    IF NonEmptyProxy(call)
    THEN << "proxy", "build", "send", "status", "read" >>
    ELSE << "build", "send", "status", "read" >>
IsPrefix(s, t) == Len(s) <= Len(t) /\ s = SubSeq(t, 1, Len(s))

StagesOnce ==
    \A c \in Calls :
        /\ IsPrefix(calls[c].events, StageOrder(calls[c]))
        /\ Count(calls[c].events, "send") <= 1
        /\ Count(calls[c].events, "read") <= 1
        /\ calls[c].failed_at # ""
             => /\ calls[c].pc = "done" /\ calls[c].result.tag = "Err"
                /\ calls[c].events[Len(calls[c].events)] = calls[c].failed_at
        /\ calls[c].pc = "done"
             => (calls[c].result.tag = "Err") <=> (calls[c].failed_at # "")

\* C7: every call runs each stage at most once and in order (at most one
\* GET, at most one body read); a stage that fails is the last stage the
\* call runs, and a call that has returned never runs again.
C7_SingleAttempt ==
    /\ []StagesOnce
    /\ [][\A c \in Calls : calls[c].pc = "done" => calls'[c] = calls[c]]_vars

C7_Witness ==
    \E c, d \in Calls :
        /\ calls[c].pc = "done" /\ calls[c].failed_at = "send"
        /\ calls[d].pc = "done" /\ calls[d].failed_at = "read"

InFlight(call) == call.pc \in {"awaitSend", "awaitBody"}
Resolved(call) ==
    /\ call.pc = "done"
    /\ call.result.tag \in {"Ok", "Err"}
    /\ call.result.tag = "Ok" => call.result.err = <<>>
    /\ call.result.tag = "Err"
         => call.result.text = <<>> /\ call.result.bytes = <<>>

\* C8: a call that is waiting (for the response or for the body) eventually
\* returns, with exactly one of Ok and Err, and has no result before it
\* returns; a request sent to the unreachable host ends in Err carrying
\* the network error of the send.
C8_EventuallyResolves ==
    /\ \A c \in Calls : InFlight(calls[c]) ~> Resolved(calls[c])
    /\ [](\A c \in Calls :
            /\ calls[c].pc = "done" => Resolved(calls[c])
            /\ calls[c].pc # "done" => calls[c].result = Pending)
    /\ \A c \in Calls :
          (calls[c].url = UnreachableUrl /\ IsSome(calls[c].request))
          ~> (/\ calls[c].pc = "done" /\ calls[c].result.tag = "Err"
              /\ calls[c].failed_at = "send"
              /\ "error sending request" \in Range(calls[c].result.err)
              /\ "operation timed out" \in Range(calls[c].result.err))

C8_Witness ==
    /\ calls[1].url = UnreachableUrl /\ IsSome(calls[1].request)
    /\ calls[1].pc = "done" /\ calls[1].result.tag = "Err"
    /\ "operation timed out" \in Range(calls[1].result.err)

\* The command `op` run on its own with the given arguments, each stage
\* given the outcome recorded for it (None: the stage has not resolved).
Replay(op, url, proxy_url, build_out, send_out, body_out) ==
    LET c0 == ConfigureProxy(NewCall(op, url, proxy_url))
        c1 == IF IsSome(build_out)
              THEN SendRequest(BuildClient(c0, Unwrap(build_out)))
              ELSE c0
        c2 == IF c1.pc = "awaitSend" /\ IsSome(send_out)
              THEN AfterSend(c1, Unwrap(send_out))
              ELSE c1
    IN IF c2.pc = "awaitBody" /\ IsSome(body_out)
       THEN AfterBody(c2, Unwrap(body_out))
       ELSE c2

\* C9: with several calls in flight and resumed in any order, every call
\* is in the state it would be in had it run alone with its own arguments
\* and the outcomes of its own stages: its client is the builder it made
\* itself, its request carries its own url and its own proxy, and its
\* result is the one its own response and body give.
C9_CallsAreIndependent ==
    \A c \in Calls :
        calls[c].pc # "idle"
        => /\ calls[c] = Replay(calls[c].op, calls[c].url, calls[c].proxy_url,
                                calls[c].build_out, calls[c].send_out,
                                calls[c].body_out)
           /\ IsSome(calls[c].client)
                => /\ calls[c].client = Some(calls[c].client_builder)
                   /\ Unwrap(calls[c].client).proxy
                        = IF NonEmptyProxy(calls[c]) THEN calls[c].proxy_url
                          ELSE None
           /\ IsSome(calls[c].request)
                => /\ Unwrap(calls[c].request).url = calls[c].url
                   /\ Unwrap(calls[c].request).via
                        = Unwrap(calls[c].client).proxy
           /\ GotBody(calls[c])
                => IF calls[c].op = "fetch_image"
                   THEN calls[c].result
                          = OkText(DataUri(StandardEncode(BodyOf(calls[c]))))
                   ELSE calls[c].result = OkBytes(BodyOf(calls[c]))

C9_Witness ==
    \E c, d \in Calls :
        /\ calls[c].pc = "awaitBody" /\ calls[d].pc = "awaitSend"
        /\ calls[c].proxy_url = Some(GoodProxy) /\ calls[d].proxy_url = None
        /\ calls[c].op # calls[d].op /\ calls[c].url = calls[d].url

OtherOp(op) == IF op = "fetch_image" THEN "fetch_image_buffer" ELSE "fetch_image"

\* C10: for the same url, proxy_url and stage outcomes, fetch_image and
\* fetch_image_buffer run the same stages in the same order, stop at the
\* same point, fail at the same stage or both succeed, and on success the
\* fetch_image result is "data:image/jpeg;base64," followed by the base64
\* text of the bytes fetch_image_buffer returns.
C10_SameUpToEncoding ==
    \A c \in Calls :
        calls[c].pc # "idle"
        => LET other == Replay(OtherOp(calls[c].op), calls[c].url,
                               calls[c].proxy_url, calls[c].build_out,
                               calls[c].send_out, calls[c].body_out)
               img == IF calls[c].op = "fetch_image" THEN calls[c] ELSE other
               buf == IF calls[c].op = "fetch_image" THEN other ELSE calls[c]
           IN /\ img.op = "fetch_image" /\ buf.op = "fetch_image_buffer"
              /\ img.events = buf.events
              /\ img.pc = buf.pc
              /\ img.failed_at = buf.failed_at
              /\ img.result.tag = buf.result.tag
              /\ img.client = buf.client /\ img.request = buf.request
              /\ img.result.tag = "Ok"
                   => /\ img.result.text
                          = DataUriPrefix \o StandardEncode(buf.result.bytes)
                      /\ Base64Decode(SubSeq(img.result.text, 24,
                                             Len(img.result.text)))
                          = buf.result.bytes

C10_Witness ==
    /\ calls[1].pc = "done" /\ calls[1].result.tag = "Ok"
    /\ calls[1].op = "fetch_image_buffer"
    /\ calls[1].result.bytes = JpegMagic
    /\ Replay("fetch_image", calls[1].url, calls[1].proxy_url,
              calls[1].build_out, calls[1].send_out,
              calls[1].body_out).result.text
         = DataUriPrefix \o << "/", "9", "j", "/" >>

====
